---- MODULE Spec2Model ----
(***************************************************************************)
(* Model of carbon_app.py: the reverse-flotation process model             *)
(* (calculate_carbon_grades, calculate_mass_balance, calculate_zn_loss,    *)
(* calculate_performance) and the Streamlit session layer that keeps the   *)
(* trend history.                                                          *)
(*                                                                         *)
(* Real numbers are exact rationals <<n, d>> in lowest terms with d > 0.   *)
(* Every decimal literal of the source is the rational it denotes          *)
(* (0.012 is 12/1000), so the arithmetic below is the arithmetic of the    *)
(* source without binary rounding.                                         *)
(***************************************************************************)
EXTENDS Integers, Sequences, FiniteSets, TLC

VARIABLES
    fn,            \* pure-function harness: the function under call
    args,          \* pure-function harness: its arguments
    pc,            \* pure-function harness: "call" before the call, "done" after
    ret,           \* pure-function harness: the return value once pc = "done"
    rougher_air,   \* script global, slider value (line 125)
    jameson_air,   \* script global, slider value (line 131)
    luproset,      \* script global, slider value (line 137)
    feed_carbon,   \* script global, slider value (line 143)
    history,       \* st.session_state.history
    last_params    \* st.session_state.last_params, <<>> when the key is absent

vars == <<fn, args, pc, ret, rougher_air, jameson_air, luproset, feed_carbon,
          history, last_params>>

None == "None"

----------------------------------------------------------------------------
(* Exact rational arithmetic *)

Abs(x) == IF x < 0 THEN -x ELSE x

RECURSIVE GCD(_, _)
GCD(a, b) == IF b = 0 THEN a ELSE GCD(b, a % b)

\* n/d in lowest terms with a positive denominator (d # 0)
Q(n, d) ==
    LET g == GCD(Abs(n), Abs(d))
        s == IF d < 0 THEN -1 ELSE 1
    IN  <<s * (n \div g), s * (d \div g)>>

I(n) == <<n, 1>>

Neg(a) == <<-a[1], a[2]>>

Add(a, b) ==
    LET g == GCD(a[2], b[2])
    IN  Q(a[1] * (b[2] \div g) + b[1] * (a[2] \div g), (a[2] \div g) * b[2])

Sub(a, b) == Add(a, Neg(b))

Mul(a, b) ==
    LET g1 == GCD(Abs(a[1]), b[2])
        g2 == GCD(Abs(b[1]), a[2])
    IN  <<(a[1] \div g1) * (b[1] \div g2), (a[2] \div g2) * (b[2] \div g1)>>

\* a / b for b # 0
Div(a, b) == Mul(a, IF b[1] < 0 THEN <<-b[2], -b[1]>> ELSE <<b[2], b[1]>>)

IsZero(a) == a[1] = 0

Le(a, b) == Sub(a, b)[1] <= 0

Lt(a, b) == Sub(a, b)[1] < 0

\* Python's max(a, b) and min(a, b): the first argument wins a tie
max(a, b) == IF Lt(a, b) THEN b ELSE a

min(a, b) == IF Lt(b, a) THEN b ELSE a

----------------------------------------------------------------------------
(* calculate_carbon_grades, lines 9-45 *)

base_conc_grade == I(40)

\* mutant: the air effect on the concentrate grade with its sign lost
rougher_air_grade_effect_positive(ra) == Mul(ra, Q(12, 1000))

rougher_air_grade_effect(ra) == Mul(Neg(ra), Q(12, 1000))

\* mutant: the Jameson coefficient copied from the rougher line, not halved
jameson_air_grade_effect_unhalved(ja) == Mul(Neg(ja), Q(12, 1000))

jameson_air_grade_effect(ja) == Mul(Neg(ja), Q(6, 1000))

luproset_grade_effect(lu) == Mul(lu, Q(8, 100))

raw_concentrate_carbon(ra, ja, lu) ==
    Add(Add(Add(base_conc_grade, rougher_air_grade_effect(ra)),
            jameson_air_grade_effect(ja)),
        luproset_grade_effect(lu))

clamp_concentrate_carbon(x) == max(I(20), min(I(60), x))

base_tail_grade(fc) == Mul(fc, Q(5, 10))

luproset_tail_effect(lu) == Mul(lu, Q(7, 100))

rougher_air_tail_effect(ra) == Mul(Neg(ra), Q(5, 1000))

jameson_air_tail_effect(ja) == Mul(Neg(ja), Q(25, 10000))

raw_tailings_carbon(ra, ja, lu, fc) ==
    Add(Add(Add(base_tail_grade(fc), luproset_tail_effect(lu)),
            rougher_air_tail_effect(ra)),
        jameson_air_tail_effect(ja))

\* mutant: the clamp with its bounds applied in the other order
clamp_tailings_carbon_floor_first(x, fc) ==
    min(Mul(fc, I(1)), max(Q(2, 10), x))

\* mutant: the clamp without its upper bound
clamp_tailings_carbon_floor_only(x, fc) == max(Q(2, 10), x)

clamp_tailings_carbon(x, fc) == max(Q(2, 10), min(Mul(fc, I(1)), x))

calculate_carbon_grades(ra, ja, lu, fc) ==
    [concentrate_carbon |->
         clamp_concentrate_carbon(raw_concentrate_carbon(ra, ja, lu)),
     tailings_carbon |->
         clamp_tailings_carbon(raw_tailings_carbon(ra, ja, lu, fc), fc)]

----------------------------------------------------------------------------
(* calculate_mass_balance, lines 47-64 *)

default_feed_tonnage == I(260)

\* The try block raises ZeroDivisionError at line 51 or at line 55
mass_balance_raises(fc, cc, tc, ft) ==
    \/ IsZero(Sub(cc, tc))
    \/ IsZero(Mul(ft, fc))

\* line 51
raw_concentrate_mass(fc, cc, tc, ft) ==
    Div(Mul(ft, Sub(fc, tc)), Sub(cc, tc))

\* line 55, computed from the unclamped concentrate mass
raw_carbon_recovery(fc, cc, tc, ft) ==
    Mul(Div(Mul(raw_concentrate_mass(fc, cc, tc, ft), cc), Mul(ft, fc)), I(100))

\* mutant: at most 5% of the feed to concentrate instead of 50%
clamp_concentrate_mass_five_percent(cm, ft) ==
    max(I(0), min(Mul(ft, Q(5, 100)), cm))

\* line 58
clamp_concentrate_mass(cm, ft) == max(I(0), min(Mul(ft, Q(5, 10)), cm))

\* line 60
clamp_carbon_recovery(r) == max(I(0), min(I(100), r))

\* mutant: a fallback triple that balances at the default feed tonnage
mass_balance_fallback_balanced ==
    [concentrate_mass |-> I(10), tailings_mass |-> I(250),
     carbon_recovery |-> I(50)]

\* line 64
mass_balance_fallback ==
    [concentrate_mass |-> I(10), tailings_mass |-> I(90),
     carbon_recovery |-> I(50)]

\* mutant: the tailings mass taken as a percentage complement (line 59 with
\* 100 for feed_tonnage)
calculate_mass_balance_percent(fc, cc, tc, ft) ==
    IF mass_balance_raises(fc, cc, tc, ft)
    THEN mass_balance_fallback
    ELSE LET concentrate_mass ==
                 clamp_concentrate_mass(raw_concentrate_mass(fc, cc, tc, ft), ft)
         IN  [concentrate_mass |-> concentrate_mass,
              tailings_mass    |-> Sub(I(100), concentrate_mass),
              carbon_recovery  |->
                  clamp_carbon_recovery(raw_carbon_recovery(fc, cc, tc, ft))]

calculate_mass_balance(fc, cc, tc, ft) ==
    IF mass_balance_raises(fc, cc, tc, ft)
    THEN mass_balance_fallback
    ELSE LET concentrate_mass ==
                 clamp_concentrate_mass(raw_concentrate_mass(fc, cc, tc, ft), ft)
         IN  [concentrate_mass |-> concentrate_mass,
              tailings_mass    |-> Sub(ft, concentrate_mass),
              carbon_recovery  |->
                  clamp_carbon_recovery(raw_carbon_recovery(fc, cc, tc, ft))]

----------------------------------------------------------------------------
(* calculate_zn_loss, lines 66-80 *)

min_recovery == I(10)

max_recovery == I(55)

min_zn_loss == Q(1, 10)

max_zn_loss == I(4)

normalized_recovery(carbon_recovery) ==
    max(I(0), min(I(1),
        Div(Sub(carbon_recovery, min_recovery),
            Sub(max_recovery, min_recovery))))

calculate_zn_loss(carbon_recovery) ==
    Add(min_zn_loss,
        Mul(normalized_recovery(carbon_recovery),
            Sub(max_zn_loss, min_zn_loss)))

----------------------------------------------------------------------------
(* calculate_performance, lines 82-110 *)

rougher_air_recovery_effect(ra) == Mul(ra, Q(45, 1000))

jameson_air_recovery_effect(ja) == Mul(ja, Q(225, 10000))

luproset_recovery_effect(lu) == Mul(Neg(lu), Q(15, 1000))

base_recovery == I(0)

raw_total_recovery(ra, ja, lu) ==
    Add(Add(Add(base_recovery, rougher_air_recovery_effect(ra)),
            jameson_air_recovery_effect(ja)),
        luproset_recovery_effect(lu))

clamp_total_recovery(x) == max(I(10), min(I(55), x))

total_recovery(ra, ja, lu) == clamp_total_recovery(raw_total_recovery(ra, ja, lu))

calculate_performance(ra, ja, lu, fc) ==
    LET g  == calculate_carbon_grades(ra, ja, lu, fc)
        mb == calculate_mass_balance(fc, g.concentrate_carbon,
                                     g.tailings_carbon, default_feed_tonnage)
        tr == total_recovery(ra, ja, lu)
    IN  [recovery              |-> tr,
         concentrate_carbon    |-> g.concentrate_carbon,
         tailings_carbon       |-> g.tailings_carbon,
         conc_mass             |-> mb.concentrate_mass,
         tail_mass             |-> mb.tailings_mass,
         mass_balance_recovery |-> mb.carbon_recovery,
         zn_loss               |-> calculate_zn_loss(tr)]

----------------------------------------------------------------------------
(* The sliders of the sidebar, lines 125-147 *)

rougher_air_max == 1000

rougher_air_step == 50

jameson_air_max == 600

jameson_air_step == 25

luproset_max == 100

luproset_step == 5

\* feed carbon runs from 3.0 to 6.0 in steps of 0.1: tenths 30..60
feed_carbon_min_tenths == 30

feed_carbon_max_tenths == 60

RougherAirValues ==
    {I(k * rougher_air_step) : k \in 0..(rougher_air_max \div rougher_air_step)}

JamesonAirValues ==
    {I(k * jameson_air_step) : k \in 0..(jameson_air_max \div jameson_air_step)}

LuprosetValues ==
    {I(k * luproset_step) : k \in 0..(luproset_max \div luproset_step)}

FeedCarbonValues ==
    {Q(k, 10) : k \in feed_carbon_min_tenths..feed_carbon_max_tenths}

\* the slider defaults (value=...)
DefaultParams == <<I(0), I(0), I(80), Q(45, 10)>>

----------------------------------------------------------------------------
(* Pure-function harness: one call of a function of the module on          *)
(* arguments drawn by Init.                                                *)

SessionIdle ==
    /\ rougher_air = DefaultParams[1]
    /\ jameson_air = DefaultParams[2]
    /\ luproset = DefaultParams[3]
    /\ feed_carbon = DefaultParams[4]
    /\ history = <<>>
    /\ last_params = <<>>

SessionUnchanged ==
    UNCHANGED <<rougher_air, jameson_air, luproset, feed_carbon,
                history, last_params>>

\* calculate_performance on every combination of slider positions
InitPerformance ==
    /\ fn = "calculate_performance"
    /\ args \in [rougher_air : RougherAirValues, jameson_air : JamesonAirValues,
                 luproset : LuprosetValues, feed_carbon : FeedCarbonValues]
    /\ pc = "call"
    /\ ret = None
    /\ SessionIdle

CallPerformance ==
    /\ fn = "calculate_performance"
    /\ pc = "call"
    /\ pc' = "done"
    /\ ret' = calculate_performance(args.rougher_air, args.jameson_air,
                                    args.luproset, args.feed_carbon)
    /\ UNCHANGED <<fn, args>>
    /\ SessionUnchanged

NextPerformance == CallPerformance

SpecPerformance == InitPerformance /\ [][NextPerformance]_vars

----------------------------------------------------------------------------
(* Calls outside the documented ranges: the functions are total, so the    *)
(* harness also draws negative values, values beyond the slider maxima     *)
(* (where the clamps of the grade model act) and a zero feed carbon.       *)

MaxWideSteps == 4

WideAirValues == {I(k * 500) : k \in -1..MaxWideSteps}

WideLuprosetValues == {I(k * 100) : k \in -1..MaxWideSteps}

WideFeedCarbonValues == {Q(k * 15, 10) : k \in -1..MaxWideSteps} \cup {Q(1, 10)}

InitWide ==
    /\ fn \in {"calculate_carbon_grades", "calculate_performance"}
    /\ args \in [rougher_air : WideAirValues, jameson_air : WideAirValues,
                 luproset : WideLuprosetValues, feed_carbon : WideFeedCarbonValues]
    /\ pc = "call"
    /\ ret = None
    /\ SessionIdle

CallCarbonGrades ==
    /\ fn = "calculate_carbon_grades"
    /\ pc = "call"
    /\ pc' = "done"
    /\ ret' = calculate_carbon_grades(args.rougher_air, args.jameson_air,
                                      args.luproset, args.feed_carbon)
    /\ UNCHANGED <<fn, args>>
    /\ SessionUnchanged

NextWide == CallCarbonGrades \/ CallPerformance

SpecWide == InitWide /\ [][NextWide]_vars

----------------------------------------------------------------------------
(* Direct calls of calculate_mass_balance on arbitrary finite arguments    *)

MaxHalfGrades == 8

MassBalanceGrades == {Q(k, 2) : k \in -2..MaxHalfGrades} \cup {I(20), I(40)}

MassBalanceTonnages == {I(0), I(100), default_feed_tonnage}

InitMassBalance ==
    /\ fn = "calculate_mass_balance"
    /\ args \in [feed_carbon : MassBalanceGrades,
                 concentrate_carbon : MassBalanceGrades,
                 tailings_carbon : MassBalanceGrades,
                 feed_tonnage : MassBalanceTonnages]
    /\ pc = "call"
    /\ ret = None
    /\ SessionIdle

CallMassBalance ==
    /\ fn = "calculate_mass_balance"
    /\ pc = "call"
    /\ pc' = "done"
    /\ ret' = calculate_mass_balance(args.feed_carbon, args.concentrate_carbon,
                                     args.tailings_carbon, args.feed_tonnage)
    /\ UNCHANGED <<fn, args>>
    /\ SessionUnchanged

NextMassBalance == CallMassBalance

SpecMassBalance == InitMassBalance /\ [][NextMassBalance]_vars

----------------------------------------------------------------------------
(* The session layer: one run of the script, lines 149-152 and 349-371,    *)
(* and the Reset Trends button, lines 488-491.                             *)

history_limit == 30

\* the dictionary appended at lines 356-366
history_entry(h, params) ==
    LET p == calculate_performance(params[1], params[2], params[3], params[4])
    IN  [time        |-> Len(h),
         rougher_air |-> params[1],
         jameson_air |-> params[2],
         luproset    |-> params[3],
         recovery    |-> p.recovery,
         conc_grade  |-> p.concentrate_carbon,
         tail_grade  |-> p.tailings_carbon,
         conc_mass   |-> p.conc_mass,
         zn_loss     |-> p.zn_loss]

\* line 355: the key is absent, or the parameters differ from the last run's
params_changed(lp, params) == lp = <<>> \/ lp # params

\* mutant: history[:30], the first 30 entries kept
keep_first(h) ==
    IF Len(h) > history_limit
    THEN SubSeq(h, 1, history_limit)
    ELSE h

\* lines 370-371: history[-30:]
keep_last(h) ==
    IF Len(h) > history_limit
    THEN SubSeq(h, Len(h) - history_limit + 1, Len(h))
    ELSE h

\* session_state.history at the end of a run that does not end in a reset
history_after_run(h, lp, params) ==
    keep_last(IF params_changed(lp, params)
              THEN Append(h, history_entry(h, params))
              ELSE h)

\* One run of the script on the current slider values
ScriptRun(params) ==
    /\ history' = history_after_run(history, last_params, params)
    /\ last_params' = params
    /\ rougher_air' = params[1]
    /\ jameson_air' = params[2]
    /\ luproset' = params[3]
    /\ feed_carbon' = params[4]

\* positions the rougher air slider is moved between in a session
SessionRougherAirValues == {I(0), I(rougher_air_step)}

HarnessUnchanged == UNCHANGED <<fn, args, pc, ret>>

InitSession ==
    /\ fn = "script"
    /\ args = None
    /\ pc = "idle"
    /\ ret = None
    /\ SessionIdle

\* the first run of a session: every slider at its default
LoadPage ==
    /\ last_params = <<>>
    /\ ScriptRun(DefaultParams)
    /\ HarnessUnchanged

\* the user moves the rougher air slider: a run with the new value
MoveSlider ==
    /\ last_params # <<>>
    /\ \E v \in SessionRougherAirValues \ {rougher_air} :
           ScriptRun(<<v, jameson_air, luproset, feed_carbon>>)
    /\ HarnessUnchanged

\* a rerun with nothing changed
Rerun ==
    /\ last_params # <<>>
    /\ ScriptRun(<<rougher_air, jameson_air, luproset, feed_carbon>>)
    /\ HarnessUnchanged

\* Reset Trends: the run in which the button is True goes through lines
\* 349-371, then empties the history and calls st.rerun(); the rerun finds the
\* parameters unchanged and appends nothing
ResetTrends ==
    /\ last_params # <<>>
    /\ LET params == <<rougher_air, jameson_air, luproset, feed_carbon>>
           emptied == <<>>                       \* line 490
       IN  /\ history' = history_after_run(emptied, params, params)
           /\ last_params' = params
    /\ UNCHANGED <<rougher_air, jameson_air, luproset, feed_carbon>>
    /\ HarnessUnchanged

NextSession == LoadPage \/ MoveSlider \/ Rerun \/ ResetTrends

SpecSession == InitSession /\ [][NextSession]_vars

----------------------------------------------------------------------------
(* Properties of calculate_performance on the documented ranges            *)
(* (SpecPerformance)                                                       *)

PerformanceDone == pc = "done" /\ fn = "calculate_performance"

\* C1: for every input in the documented ranges, the concentrate mass and the
\* tailings mass returned by calculate_performance sum to exactly 260.
C1_MassesSumToFeedTonnage ==
    PerformanceDone => Add(ret.conc_mass, ret.tail_mass) = I(260)

\* a call that split the feed into two non-empty streams
C1_Witness ==
    /\ PerformanceDone
    /\ Lt(I(0), ret.conc_mass)
    /\ Lt(I(130), ret.tail_mass)

C10_NoFallbackNoClamp ==
    PerformanceDone =>
        LET fc == args.feed_carbon
            cc == ret.concentrate_carbon
            tc == ret.tailings_carbon
            cm == raw_concentrate_mass(fc, cc, tc, I(260))
            cr == raw_carbon_recovery(fc, cc, tc, I(260))
        IN  /\ ~mass_balance_raises(fc, cc, tc, I(260))
            /\ Le(I(0), cm) /\ Le(cm, I(130))
            /\ Le(I(0), cr) /\ Le(cr, I(100))
            /\ ret.conc_mass = cm
            /\ ret.mass_balance_recovery = cr
            /\ ret.mass_balance_recovery =
                   Mul(Div(Mul(ret.conc_mass, cc), Mul(I(260), fc)), I(100))

\* a call whose concentrate mass is large and still below the 130 t clamp
C10_Witness ==
    /\ PerformanceDone
    /\ Lt(I(60), ret.conc_mass)
    /\ Lt(I(0), ret.mass_balance_recovery)

----------------------------------------------------------------------------
(* Properties of calculate_mass_balance called directly (SpecMassBalance)  *)

MassBalanceDone == pc = "done" /\ fn = "calculate_mass_balance"

\* C3: when concentrate_carbon equals tailings_carbon, for any feed_carbon and
\* feed_tonnage, calculate_mass_balance returns exactly (10, 90, 50).
C3_DegenerateReturnsFallback ==
    (MassBalanceDone /\ args.concentrate_carbon = args.tailings_carbon) =>
        ret = [concentrate_mass |-> I(10), tailings_mass |-> I(90),
               carbon_recovery |-> I(50)]

\* a degenerate call at the default feed tonnage and a documented feed carbon
C3_Witness ==
    /\ MassBalanceDone
    /\ args.concentrate_carbon = args.tailings_carbon
    /\ args.feed_tonnage = I(260)
    /\ args.feed_carbon = I(3)
    /\ ret.carbon_recovery = I(50)

\* C4: for every call of calculate_mass_balance with finite arguments, the
\* degenerate ones included, concentrate_mass and tailings_mass sum to exactly
\* the feed_tonnage passed in.
C4_BalanceAlwaysExact ==
    MassBalanceDone =>
        Add(ret.concentrate_mass, ret.tailings_mass) = args.feed_tonnage

----------------------------------------------------------------------------
(* Properties of the grade and recovery models on all inputs (SpecWide)    *)

GradesDone == pc = "done" /\ fn = "calculate_carbon_grades"

\* C5 as stated: for all finite inputs, tailings_carbon lies in
\* [0.2, feed_carbon].
C5_TailingsWithinFeed ==
    GradesDone =>
        /\ Le(Q(2, 10), ret.tailings_carbon)
        /\ Le(ret.tailings_carbon, args.feed_carbon)

\* C5 amended: for all finite inputs, tailings_carbon lies in
\* [0.2, max(0.2, feed_carbon)]: it is at most feed_carbon whenever
\* feed_carbon >= 0.2, and it is exactly 0.2 when feed_carbon < 0.2.
C5_TailingsWithinFloorAndFeed ==
    GradesDone =>
        /\ Le(Q(2, 10), ret.tailings_carbon)
        /\ Le(Q(2, 10), args.feed_carbon) =>
               Le(ret.tailings_carbon, args.feed_carbon)
        /\ Lt(args.feed_carbon, Q(2, 10)) => ret.tailings_carbon = Q(2, 10)

\* a call with a feed carbon below the 0.2 floor
C5_Witness ==
    /\ GradesDone
    /\ Lt(args.feed_carbon, Q(2, 10))
    /\ Lt(args.feed_carbon, ret.tailings_carbon)

\* a finished call with rougher air a and no Jameson air
RougherOnlyDone ==
    /\ pc = "done"
    /\ fn \in {"calculate_carbon_grades", "calculate_performance"}
    /\ args.jameson_air = I(0)

\* C6 as stated: from the baseline grade(0,0,d,f), the change of each output
\* under grade(a,0,d,f) is twice the change under grade(0,2a,d,f); the same for
\* the overall recovery.
C6_RougherDeltaTwiceJamesonDelta ==
    RougherOnlyDone =>
        LET a    == args.rougher_air
            d    == args.luproset
            f    == args.feed_carbon
            base == calculate_carbon_grades(I(0), I(0), d, f)
            jam  == calculate_carbon_grades(I(0), Mul(I(2), a), d, f)
        IN  /\ Sub(ret.concentrate_carbon, base.concentrate_carbon) =
                   Mul(I(2), Sub(jam.concentrate_carbon, base.concentrate_carbon))
            /\ Sub(ret.tailings_carbon, base.tailings_carbon) =
                   Mul(I(2), Sub(jam.tailings_carbon, base.tailings_carbon))
            /\ fn = "calculate_performance" =>
                   Sub(ret.recovery, total_recovery(I(0), I(0), d)) =
                       Mul(I(2), Sub(total_recovery(I(0), Mul(I(2), a), d),
                                     total_recovery(I(0), I(0), d)))

\* C6 amended: from the baseline grade(0,0,d,f), the change of each output under
\* grade(a,0,d,f) equals the change under grade(0,2a,d,f) (once, not twice):
\* rougher air a and Jameson air 2a give the same concentrate carbon, tailings
\* carbon and overall recovery.
C6_RougherEqualsDoubleJameson ==
    RougherOnlyDone =>
        LET a    == args.rougher_air
            d    == args.luproset
            f    == args.feed_carbon
            jam  == calculate_carbon_grades(I(0), Mul(I(2), a), d, f)
        IN  /\ ret.concentrate_carbon = jam.concentrate_carbon
            /\ ret.tailings_carbon = jam.tailings_carbon
            /\ fn = "calculate_performance" =>
                   ret.recovery = total_recovery(I(0), Mul(I(2), a), d)

\* rougher air 1000 alone moved every output off its baseline, no clamp acting
C6_Witness ==
    /\ RougherOnlyDone
    /\ fn = "calculate_performance"
    /\ args.rougher_air = I(1000)
    /\ args.luproset = I(100)
    /\ args.feed_carbon = I(6)
    /\ ret.concentrate_carbon = I(36)
    /\ ret.tailings_carbon = I(5)
    /\ ret.recovery = Q(435, 10)

\* C7: holding the other inputs fixed, concentrate_carbon is non-increasing in
\* rougher_air and in jameson_air and non-decreasing in luproset, also where the
\* [20, 60] clamp is active, and it does not depend on feed_carbon.
C7_ConcentrateCarbonMonotone ==
    GradesDone =>
        LET cc(ra, ja, lu, fc) ==
                calculate_carbon_grades(ra, ja, lu, fc).concentrate_carbon
        IN  /\ \A x \in WideAirValues :
                   Le(args.rougher_air, x) =>
                       Le(cc(x, args.jameson_air, args.luproset, args.feed_carbon),
                          ret.concentrate_carbon)
            /\ \A x \in WideAirValues :
                   Le(args.jameson_air, x) =>
                       Le(cc(args.rougher_air, x, args.luproset, args.feed_carbon),
                          ret.concentrate_carbon)
            /\ \A x \in WideLuprosetValues :
                   Le(args.luproset, x) =>
                       Le(ret.concentrate_carbon,
                          cc(args.rougher_air, args.jameson_air, x, args.feed_carbon))
            /\ \A x \in WideFeedCarbonValues :
                   cc(args.rougher_air, args.jameson_air, args.luproset, x) =
                       ret.concentrate_carbon

\* a call in which the lower clamp of the concentrate grade acted
C7_Witness ==
    /\ GradesDone
    /\ ret.concentrate_carbon = I(20)
    /\ Lt(raw_concentrate_carbon(args.rougher_air, args.jameson_air,
                                 args.luproset), I(20))

----------------------------------------------------------------------------
(* Properties of the session history (SpecSession)                         *)

\* what one step may do to the history: a run that finds the parameters changed
\* appends one entry for the new slider values at the end and, when the history
\* already held 30 entries, drops the first; any other step leaves the history
\* as it was or empties it
HistoryStep ==
    IF last_params' = last_params
    THEN history' \in {history, <<>>}
    ELSE /\ Len(history') > 0
         /\ history' = Append(IF Len(history) < 30 THEN history ELSE Tail(history),
                              history'[Len(history')])
         /\ history'[Len(history')].rougher_air = rougher_air'

\* C8: after any sequence of runs (input changes, reruns with unchanged inputs,
\* Reset Trends presses) the history holds at most 30 entries, and they are the
\* most recently appended entries in append order: an append to a full history
\* evicts the oldest entry.
C8_RollingHistory ==
    /\ [](Len(history) <= 30)
    /\ [][HistoryStep]_vars

\* 31 appends without a reset: the entry appended first is gone
C8_Witness ==
    /\ Len(history) = 30
    /\ history[1].time = 1
    /\ history[30].time = 30

\* C9: in every reachable session state the 'time' values of the history
\* entries are strictly increasing in list order.
C9_TimesStrictlyIncreasing ==
    \A i \in 1..(Len(history) - 1) : history[i].time < history[i + 1].time

====
